---- MODULE Spec2Model ----
(***************************************************************************)
(* State machine of the App component of the election poster generator     *)
(* (src/App.tsx): the React state of the component, the generation         *)
(* requests and downloads that are in flight, and one action per event     *)
(* handler or asynchronous continuation.                                   *)
(*                                                                         *)
(* React runs every handler and every promise / image callback to          *)
(* completion on one thread and re-renders before the next event is        *)
(* dispatched, so each handler is one atomic action that reads the state   *)
(* of the latest render.  Values a closure captured (the photo and symbol  *)
(* of handleGenerateClick, the poster and icon of handleDownload) are      *)
(* kept in the record of the request in flight.                            *)
(*                                                                         *)
(* previewUrl and selectedFont only feed the markup and the font of the    *)
(* drawn text; no handler branches on them and they are left out.          *)
(*                                                                         *)
(* Lengths of the layout are exact rationals, held as integers in units of *)
(* 1/Unit px.  The one place where the rounding of the doubles is visible  *)
(* is the integer attribute canvas.height: see CanvasHeights.              *)
(***************************************************************************)
EXTENDS Integers, Sequences, FiniteSets, TLC

(* ----------------------------- bounds --------------------------------- *)
\* generation requests issued in one behaviour
MaxGenerations == 2
\* download attempts started in one behaviour
MaxDownloads == 2
\* poster variants one generation call may return
MaxPosters == 2

(* ----------------------------- values --------------------------------- *)
NULL == "null"
Files == {"photo1", "photo2"}
\* a text field is empty or filled; the empty string is falsy
Texts == {"", "text"}

\* an opaque image reference, labelled by the request that produced it
Poster(g, f, i) == [gen |-> g, photo |-> f, idx |-> i]
NullPoster == [gen |-> 0, photo |-> NULL, idx |-> 0]
Icon(g, s) == [gen |-> g, symbol |-> s]
NullIcon == [gen |-> 0, symbol |-> NULL]
\* string[] | null
NullPosters == [null |-> TRUE, items |-> <<>>]
PosterArray(s) == [null |-> FALSE, items |-> s]

MsgFillAllFields == "Please fill all fields: photo, name, symbol, and district."
MsgNoPosters == "The AI model did not return any poster images. Please try again."
MsgNoIcon == "The AI model failed to generate an icon for the symbol."
MsgUnexpected == "An unexpected error occurred."
MsgNoContext == "Could not create canvas context for download."
MsgIconLoad == "Could not load symbol icon to create download file."
MsgPosterLoad == "Could not load poster image to create download file."
\* the message of an Error a collaborator rejected with
MsgService == "service error"

\* what an awaited collaborator can reject with: an Error, or another value
Rejections == {"Error", "other"}
\* catch (err): err instanceof Error ? err.message : 'An unexpected error occurred.'
CatchMessage(reason) == IF reason = "Error" THEN MsgService ELSE MsgUnexpected

\* generatePoster settles: rejected, null/undefined, or an array of n images
PosterReplies ==
    {[kind |-> "reject", n |-> 0], [kind |-> "null", n |-> 0]}
        \cup {[kind |-> "array", n |-> n] : n \in 0..MaxPosters}
\* generateSymbolImage settles: rejected, an empty value, or an image
IconReplies == {"reject", "null", "image"}

\* mutant: the shadow is reset only after the icon has been drawn
CompositeOps_ShadowOffLate ==
    << "drawPoster", "shadowOn", "fillName", "fillDistrict", "drawIcon",
       "shadowOff", "toDataURL", "click" >>
\* the surface operations of symbolImage.onload, in program order
CompositeOps ==
    << "drawPoster", "shadowOn", "fillName", "fillDistrict", "shadowOff",
       "drawIcon", "toDataURL", "click" >>
\* what the canvas calls of one composite do: all succeed, or one of the
\* calls that the canvas API lets fail (drawImage, toDataURL) throws
CanvasOutcomes == {"ok", "drawPoster", "drawIcon", "toDataURL"}

(* ----------------------------- state ---------------------------------- *)
VARIABLES
    imageFile, name, symbol, district,
    generatedPosters, selectedPoster, symbolImageUrl,
    isLoading, isDownloading, error,
    gens, genCount,         \* handleGenerateClick calls suspended at an await
    downloads, dlCount,     \* handleDownload calls waiting for an image event
    canvasOps, savedFile,   \* surface calls and file saved by the latest step
    geometry,               \* layout values computed by the latest step
    resetGen,               \* the number of requests issued before the latest reset
    last                    \* the latest step

form == <<imageFile, name, symbol, district>>
results == <<generatedPosters, selectedPoster, symbolImageUrl>>
flight == <<gens, genCount, downloads, dlCount>>
vars == <<imageFile, name, symbol, district, generatedPosters, selectedPoster,
          symbolImageUrl, isLoading, isDownloading, error, gens, genCount,
          downloads, dlCount, canvasOps, savedFile, geometry, resetGen,
          last>>

NoFile == [poster |-> NullPoster, icon |-> NullIcon]
Did(op) == [op |-> op, posters |-> "", n |-> 0, icon |-> ""]

(* ------------------------------ layout ------------------------------- *)
\* const scale = 1500 / posterImage.width; canvas.width = 1500
TargetWidth == 1500
\* lengths are held in units of 1/Unit px: Unit is a common denominator of
\* 0.82 (41/50), 1/14 and 1/28, 1/35, 1/9 and 1/18
Unit == 6300

\* natural (width, height) of a decoded poster: the scenario of the layout
\* example, a width that does not divide 1500 * height, a size whose
\* quotient is a whole number although 1500 / width is not a double, and an
\* image that reports a zero width
PosterSizes == {<<1000, 1000>>, <<7, 5>>, <<9, 195>>, <<0, 150>>}

RECURSIVE Gcd(_, _)
Gcd(a, b) == IF b = 0 THEN a ELSE Gcd(b, a % b)
RECURSIVE IsPow2(_)
IsPow2(n) == n = 1 \/ (n > 1 /\ n % 2 = 0 /\ IsPow2(n \div 2))
\* 1500 / w is a double without rounding
ScaleExact(w) == w > 0 /\ IsPow2(w \div Gcd(w, TargetWidth))

\* mutant: the scale is taken from the height and applied to the width
CanvasHeights_Inverted(w, h) ==
    IF w = 0 \/ h = 0 THEN {0}
    ELSE LET q == (w * TargetWidth) \div h
         IN  IF (w * TargetWidth) % h = 0 /\ ~ScaleExact(h)
             THEN {q - 1, q}
             ELSE {q}

\* canvas.height = posterImage.height * scale: the attribute is an unsigned
\* long, so the double is truncated, and Infinity and NaN (width 0) become 0.
\* Where 1500 / w is rounded and the exact product is a whole number, the
\* double product can fall just below it and truncate to one less.
CanvasHeights(w, h) ==
    IF w = 0 \/ h = 0 THEN {0}
    ELSE LET q == (h * TargetWidth) \div w
         IN  IF (h * TargetWidth) % w = 0 /\ ~ScaleExact(w)
             THEN {q - 1, q}
             ELSE {q}

NoValue == 0 - 1
NoGeometry ==
    [posterWidth |-> NoValue, posterHeight |-> NoValue,
     canvasWidth |-> NoValue, canvasHeight |-> NoValue,
     nameFontSize |-> NoValue, nameY |-> NoValue,
     districtFontSize |-> NoValue, districtY |-> NoValue,
     symbolSize |-> NoValue, symbolX |-> NoValue, symbolY |-> NoValue]

\* the canvas of a poster of w x h px whose height attribute reads ch
CanvasSize(w, h, ch) ==
    [NoGeometry EXCEPT !.posterWidth = w, !.posterHeight = h,
                       !.canvasWidth = TargetWidth, !.canvasHeight = ch]

\* mutant: the icon is offset by its whole size instead of half of it
Layout_IconOffsetBySize(w, h, ch) ==
    LET nameFontSize == (TargetWidth * Unit) \div 14
        nameY == ch * ((82 * Unit) \div 100)
        districtFontSize == (TargetWidth * Unit) \div 35
        districtY == nameY + nameFontSize \div 2
        symbolSize == (TargetWidth * Unit) \div 9
        symbolX == (TargetWidth * Unit) \div 2 - symbolSize
        symbolY == districtY + districtFontSize
    IN  [CanvasSize(w, h, ch) EXCEPT
            !.nameFontSize = nameFontSize, !.nameY = nameY,
            !.districtFontSize = districtFontSize, !.districtY = districtY,
            !.symbolSize = symbolSize, !.symbolX = symbolX,
            !.symbolY = symbolY]

\* the layout values symbolImage.onload computes after the canvas is sized
Layout(w, h, ch) ==
    LET nameFontSize == (TargetWidth * Unit) \div 14
        nameY == ch * ((82 * Unit) \div 100)
        districtFontSize == (TargetWidth * Unit) \div 35
        districtY == nameY + nameFontSize \div 2
        symbolSize == (TargetWidth * Unit) \div 9
        symbolX == (TargetWidth * Unit) \div 2 - symbolSize \div 2
        symbolY == districtY + districtFontSize
    IN  [CanvasSize(w, h, ch) EXCEPT
            !.nameFontSize = nameFontSize, !.nameY = nameY,
            !.districtFontSize = districtFontSize, !.districtY = districtY,
            !.symbolSize = symbolSize, !.symbolX = symbolX,
            !.symbolY = symbolY]

\* a step that touches no canvas
NoCanvas ==
    canvasOps' = <<>> /\ savedFile' = NoFile /\ geometry' = NoGeometry

Init ==
    /\ imageFile = NULL
    /\ name = ""
    /\ symbol = ""
    /\ district = ""
    /\ generatedPosters = NullPosters
    /\ selectedPoster = NullPoster
    /\ symbolImageUrl = NullIcon
    /\ isLoading = FALSE
    /\ isDownloading = FALSE
    /\ error = NULL
    /\ gens = {}
    /\ genCount = 0
    /\ downloads = {}
    /\ dlCount = 0
    /\ canvasOps = <<>>
    /\ savedFile = NoFile
    /\ geometry = NoGeometry
    /\ resetGen = 0
    /\ last = Did("init")

(* ----------------------------- render --------------------------------- *)
isFormComplete == imageFile # NULL /\ name # "" /\ symbol # "" /\ district # ""

ShowSpinner == isLoading
ShowError == ~isLoading /\ error # NULL
ShowResult ==
    /\ ~isLoading
    /\ error = NULL
    /\ ~generatedPosters.null
    /\ selectedPoster # NullPoster
\* mutant: the placeholder is rendered without testing error
ShowPlaceholder_IgnoresError == ~isLoading /\ generatedPosters.null
ShowPlaceholder == ~isLoading /\ error = NULL /\ generatedPosters.null

GenerateDisabled == ~isFormComplete \/ isLoading
ResetShown == ~generatedPosters.null
\* mutant: the download button is never disabled
DownloadDisabled_Never == FALSE
DownloadDisabled == isDownloading

(* ----------------------------- form ----------------------------------- *)
\* the onChange handlers of the text inputs fire when the value changes
\* mutant: an upload clears the poster list but keeps the selection
handleImageChange_KeepsSelection(file) ==
    /\ IF file # NULL
       THEN /\ imageFile' = file
            /\ generatedPosters' = NullPosters
            /\ symbolImageUrl' = NullIcon
            /\ error' = NULL
            /\ UNCHANGED selectedPoster
       ELSE UNCHANGED <<imageFile, results, error>>
    /\ UNCHANGED <<name, symbol, district, isLoading, isDownloading, flight>>
handleImageChange(file) ==
    /\ IF file # NULL
       THEN /\ imageFile' = file
            /\ generatedPosters' = NullPosters
            /\ selectedPoster' = NullPoster
            /\ symbolImageUrl' = NullIcon
            /\ error' = NULL
       ELSE UNCHANGED <<imageFile, results, error>>
    /\ UNCHANGED <<name, symbol, district, isLoading, isDownloading, flight>>

ImageChange ==
    \E file \in Files \cup {NULL} :
        /\ handleImageChange(file)
        /\ UNCHANGED resetGen
        /\ IF file # NULL      \* a call with no file does nothing at all
           THEN NoCanvas /\ last' = Did("input")
           ELSE UNCHANGED <<canvasOps, savedFile, geometry, last>>

SetName ==
    \E v \in Texts :
        /\ v # name
        /\ name' = v
        /\ UNCHANGED <<imageFile, symbol, district, results, isLoading,
                       isDownloading, error, flight>>
        /\ NoCanvas
        /\ UNCHANGED resetGen
        /\ last' = Did("input")

SetSymbol ==
    \E v \in Texts :
        /\ v # symbol
        /\ symbol' = v
        /\ UNCHANGED <<imageFile, name, district, results, isLoading,
                       isDownloading, error, flight>>
        /\ NoCanvas
        /\ UNCHANGED resetGen
        /\ last' = Did("input")

SetDistrict ==
    \E v \in Texts :
        /\ v # district
        /\ district' = v
        /\ UNCHANGED <<imageFile, name, symbol, results, isLoading,
                       isDownloading, error, flight>>
        /\ NoCanvas
        /\ UNCHANGED resetGen
        /\ last' = Did("input")

(* --------------------------- generation ------------------------------- *)
\* mutant: the loading flag is raised before the fields are validated
handleGenerateClick_LoadsFirst ==
    IF ~(imageFile # NULL /\ name # "" /\ symbol # "" /\ district # "")
    THEN /\ isLoading' = TRUE
         /\ error' = MsgFillAllFields
         /\ UNCHANGED <<form, results, isDownloading, flight>>
    ELSE /\ isLoading' = TRUE
         /\ error' = NULL
         /\ generatedPosters' = NullPosters
         /\ selectedPoster' = NullPoster
         /\ symbolImageUrl' = NullIcon
         /\ genCount' = genCount + 1
         /\ gens' = gens \cup {[id |-> genCount + 1, photo |-> imageFile,
                                symbol |-> symbol, pc |-> "fileToBase64"]}
         /\ UNCHANGED <<form, isDownloading, downloads, dlCount>>

\* mutant: the previous results are cleared before the fields are validated
handleGenerateClick_ClearsFirst ==
    IF ~(imageFile # NULL /\ name # "" /\ symbol # "" /\ district # "")
    THEN /\ error' = MsgFillAllFields
         /\ generatedPosters' = NullPosters
         /\ selectedPoster' = NullPoster
         /\ symbolImageUrl' = NullIcon
         /\ UNCHANGED <<form, isLoading, isDownloading, flight>>
    ELSE /\ isLoading' = TRUE
         /\ error' = NULL
         /\ generatedPosters' = NullPosters
         /\ selectedPoster' = NullPoster
         /\ symbolImageUrl' = NullIcon
         /\ genCount' = genCount + 1
         /\ gens' = gens \cup {[id |-> genCount + 1, photo |-> imageFile,
                                symbol |-> symbol, pc |-> "fileToBase64"]}
         /\ UNCHANGED <<form, isDownloading, downloads, dlCount>>

\* the synchronous part of handleGenerateClick, up to its first await
handleGenerateClick ==
    IF ~(imageFile # NULL /\ name # "" /\ symbol # "" /\ district # "")
    THEN /\ error' = MsgFillAllFields
         /\ UNCHANGED <<form, results, isLoading, isDownloading, flight>>
    ELSE /\ isLoading' = TRUE
         /\ error' = NULL
         /\ generatedPosters' = NullPosters
         /\ selectedPoster' = NullPoster
         /\ symbolImageUrl' = NullIcon
         /\ genCount' = genCount + 1
         /\ gens' = gens \cup {[id |-> genCount + 1, photo |-> imageFile,
                                symbol |-> symbol, pc |-> "fileToBase64"]}
         /\ UNCHANGED <<form, isDownloading, downloads, dlCount>>

\* a click on the generate button, which is disabled while the form is
\* incomplete or a generation is loading
GenerateClick ==
    /\ ~GenerateDisabled
    /\ genCount < MaxGenerations
    /\ handleGenerateClick
    /\ NoCanvas
    /\ UNCHANGED resetGen
    /\ last' = Did("generate")

\* handleGenerateClick invoked although a required field is missing
\* (the button is disabled then: a direct invocation of the handler)
GenerateInvokedIncomplete ==
    /\ ~isFormComplete
    /\ handleGenerateClick
    /\ NoCanvas
    /\ UNCHANGED resetGen
    /\ last' = Did("generateRejected")

\* await fileToBase64(imageFile) resolves; both remote calls are issued
FileEncoded ==
    \E g \in gens :
        /\ g.pc = "fileToBase64"
        /\ gens' = (gens \ {g}) \cup {[g EXCEPT !.pc = "Promise.all"]}
        /\ UNCHANGED <<form, results, isLoading, isDownloading, error,
                       genCount, downloads, dlCount>>
        /\ NoCanvas
        /\ UNCHANGED resetGen
        /\ last' = Did("fileEncoded")

\* await fileToBase64(imageFile) rejects: catch, finally
FileEncodeRejected ==
    \E g \in gens, reason \in Rejections :
        /\ g.pc = "fileToBase64"
        /\ gens' = gens \ {g}
        /\ error' = CatchMessage(reason)
        /\ isLoading' = FALSE
        /\ UNCHANGED <<form, results, isDownloading, genCount, downloads,
                       dlCount>>
        /\ NoCanvas
        /\ UNCHANGED resetGen
        /\ last' = Did("fileEncodeRejected")

\* mutant: the length of the poster array is not tested
HasPosters_NoLengthTest(pr) == pr.kind = "array"
\* posterResults && posterResults.length > 0
HasPosters(pr) == pr.kind = "array" /\ pr.n > 0
\* mutant: the last poster is selected instead of the first
DefaultSelection_Last(items) ==
    IF Len(items) > 0 THEN items[Len(items)] ELSE NullPoster
\* setSelectedPoster(posterResults[0]); [][0] is undefined
DefaultSelection(items) == IF Len(items) > 0 THEN items[1] ELSE NullPoster
\* the images request g returns when it returns n of them
PosterItems(g, n) == [i \in 1..n |-> Poster(g.id, g.photo, i)]

\* the continuation of handleGenerateClick after Promise.all settles with
\* poster reply pr and icon reply ir: try body, catch, finally
Settle(g, pr, ir) ==
    /\ IF pr.kind = "reject" \/ ir = "reject"
       THEN /\ \E reason \in Rejections : error' = CatchMessage(reason)
            /\ UNCHANGED results
       ELSE IF HasPosters(pr)
       THEN /\ generatedPosters' = PosterArray(PosterItems(g, pr.n))
            /\ selectedPoster' = DefaultSelection(PosterItems(g, pr.n))
            /\ IF ir = "image"
               THEN /\ symbolImageUrl' = Icon(g.id, g.symbol)
                    /\ UNCHANGED error
               ELSE /\ error' = MsgNoIcon
                    /\ UNCHANGED symbolImageUrl
       ELSE /\ error' = MsgNoPosters
            /\ UNCHANGED results
    /\ isLoading' = FALSE

GenerationSettled ==
    \E g \in gens, pr \in PosterReplies, ir \in IconReplies :
        /\ g.pc = "Promise.all"
        /\ gens' = gens \ {g}
        /\ Settle(g, pr, ir)
        /\ UNCHANGED <<form, isDownloading, genCount, downloads, dlCount>>
        /\ NoCanvas
        /\ UNCHANGED resetGen
        /\ last' = [op |-> "settled", posters |-> pr.kind, n |-> pr.n,
                    icon |-> ir]

(* --------------------------- selection -------------------------------- *)
\* onClick of a thumbnail of the result view: setSelectedPoster(poster)
SelectPoster ==
    \E i \in 1..Len(generatedPosters.items) :
        /\ ShowResult
        /\ selectedPoster' = generatedPosters.items[i]
        /\ UNCHANGED <<form, generatedPosters, symbolImageUrl, isLoading,
                       isDownloading, error, flight>>
        /\ NoCanvas
        /\ UNCHANGED resetGen
        /\ last' = Did("select")

\* mutant: reset forgets the symbol icon
handleReset_KeepsIcon ==
    /\ imageFile' = NULL
    /\ name' = ""
    /\ symbol' = ""
    /\ district' = ""
    /\ generatedPosters' = NullPosters
    /\ selectedPoster' = NullPoster
    /\ error' = NULL
    /\ isLoading' = FALSE
    /\ UNCHANGED <<symbolImageUrl, isDownloading, flight>>

handleReset ==
    /\ imageFile' = NULL
    /\ name' = ""
    /\ symbol' = ""
    /\ district' = ""
    /\ generatedPosters' = NullPosters
    /\ selectedPoster' = NullPoster
    /\ symbolImageUrl' = NullIcon
    /\ error' = NULL
    /\ isLoading' = FALSE
    /\ UNCHANGED <<isDownloading, flight>>

\* a click on the reset button, rendered only while posters are stored
Reset ==
    /\ ResetShown
    /\ handleReset
    /\ NoCanvas
    /\ resetGen' = genCount
    /\ last' = Did("reset")

(* ----------------------------- download ------------------------------ *)
\* mutant: the icon image is loaded at once, without waiting for the poster
handleDownload_StartsIcon ==
    IF selectedPoster = NullPoster \/ symbolImageUrl = NullIcon
    THEN UNCHANGED <<form, results, isLoading, isDownloading, error, flight>>
    ELSE /\ isDownloading' = TRUE
         /\ error' = NULL
         /\ dlCount' = dlCount + 1
         /\ downloads' = downloads \cup
                {[id |-> dlCount + 1, poster |-> selectedPoster,
                  icon |-> symbolImageUrl, pc |-> "symbolImage"]}
         /\ UNCHANGED <<form, results, isLoading, gens, genCount>>

\* handleDownload up to the point where it waits for the poster image
handleDownload ==
    IF selectedPoster = NullPoster \/ symbolImageUrl = NullIcon
    THEN UNCHANGED <<form, results, isLoading, isDownloading, error, flight>>
    ELSE /\ isDownloading' = TRUE
         /\ error' = NULL
         /\ dlCount' = dlCount + 1
         /\ downloads' = downloads \cup
                {[id |-> dlCount + 1, poster |-> selectedPoster,
                  icon |-> symbolImageUrl, pc |-> "posterImage"]}
         /\ UNCHANGED <<form, results, isLoading, gens, genCount>>

\* a click on the download button of the result view
DownloadClick ==
    /\ ShowResult
    /\ ~DownloadDisabled
    /\ dlCount < MaxDownloads
    /\ handleDownload
    /\ NoCanvas
    /\ UNCHANGED resetGen
    /\ last' = Did("download")

\* posterImage.onload: the icon image is created and its load started
PosterImageLoaded ==
    \E d \in downloads :
        /\ d.pc = "posterImage"
        /\ downloads' = (downloads \ {d}) \cup {[d EXCEPT !.pc = "symbolImage"]}
        /\ UNCHANGED <<form, results, isLoading, isDownloading, error, gens,
                       genCount, dlCount>>
        /\ NoCanvas
        /\ UNCHANGED resetGen
        /\ last' = Did("posterLoaded")

\* mutant: the poster handler reports the icon's message
PosterImageError_IconMessage ==
    \E d \in downloads :
        /\ d.pc = "posterImage"
        /\ downloads' = downloads \ {d}
        /\ error' = MsgIconLoad
        /\ isDownloading' = FALSE
        /\ UNCHANGED <<form, results, isLoading, gens, genCount, dlCount>>
        /\ NoCanvas
        /\ UNCHANGED resetGen
        /\ last' = Did("posterError")

\* posterImage.onerror
PosterImageError ==
    \E d \in downloads :
        /\ d.pc = "posterImage"
        /\ downloads' = downloads \ {d}
        /\ error' = MsgPosterLoad
        /\ isDownloading' = FALSE
        /\ UNCHANGED <<form, results, isLoading, gens, genCount, dlCount>>
        /\ NoCanvas
        /\ UNCHANGED resetGen
        /\ last' = Did("posterError")

\* symbolImage.onerror
SymbolImageError ==
    \E d \in downloads :
        /\ d.pc = "symbolImage"
        /\ downloads' = downloads \ {d}
        /\ error' = MsgIconLoad
        /\ isDownloading' = FALSE
        /\ UNCHANGED <<form, results, isLoading, gens, genCount, dlCount>>
        /\ NoCanvas
        /\ UNCHANGED resetGen
        /\ last' = Did("iconError")

OpIndex(op) == CHOOSE i \in 1..Len(CompositeOps) : CompositeOps[i] = op

\* mutant: the composite draws the poster and icon of the current state
\* instead of the ones handleDownload captured
Composite_ReadsCurrentState(d, ctx, outcome) ==
    IF ~ctx
    THEN /\ error' = MsgNoContext
         /\ isDownloading' = FALSE
         /\ canvasOps' = <<>>
         /\ savedFile' = NoFile
    ELSE IF outcome = "ok"
    THEN /\ canvasOps' = CompositeOps
         /\ savedFile' = [poster |-> selectedPoster, icon |-> symbolImageUrl]
         /\ isDownloading' = FALSE
         /\ UNCHANGED error
    ELSE /\ canvasOps' = SubSeq(CompositeOps, 1, OpIndex(outcome))
         /\ savedFile' = NoFile
         /\ UNCHANGED <<isDownloading, error>>

\* mutant: the missing context is reported but the download flag stays set
Composite_NoContextKeepsFlag(d, ctx, outcome) ==
    IF ~ctx
    THEN /\ error' = MsgNoContext
         /\ canvasOps' = <<>>
         /\ savedFile' = NoFile
         /\ UNCHANGED isDownloading
    ELSE IF outcome = "ok"
    THEN /\ canvasOps' = CompositeOps
         /\ savedFile' = [poster |-> d.poster, icon |-> d.icon]
         /\ isDownloading' = FALSE
         /\ UNCHANGED error
    ELSE /\ canvasOps' = SubSeq(CompositeOps, 1, OpIndex(outcome))
         /\ savedFile' = NoFile
         /\ UNCHANGED <<isDownloading, error>>

\* the body of symbolImage.onload for download d: ctx tells whether
\* getContext('2d') returned a context, outcome what the canvas calls do
Composite(d, ctx, outcome) ==
    IF ~ctx
    THEN /\ error' = MsgNoContext
         /\ isDownloading' = FALSE
         /\ canvasOps' = <<>>
         /\ savedFile' = NoFile
    ELSE IF outcome = "ok"
    THEN /\ canvasOps' = CompositeOps
         /\ savedFile' = [poster |-> d.poster, icon |-> d.icon]
         /\ isDownloading' = FALSE
         /\ UNCHANGED error
    ELSE \* the call throws out of the callback: nothing after it runs
         /\ canvasOps' = SubSeq(CompositeOps, 1, OpIndex(outcome))
         /\ savedFile' = NoFile
         /\ UNCHANGED <<isDownloading, error>>

\* the layout values the body of symbolImage.onload computes for a poster
\* of size (w, h): the canvas is sized before the context is requested, the
\* text and icon values are computed after the poster is drawn
Measure(size, ch, ctx, outcome) ==
    geometry' = IF ~ctx \/ outcome = "drawPoster"
                THEN CanvasSize(size[1], size[2], ch)
                ELSE Layout(size[1], size[2], ch)

\* symbolImage.onload
SymbolImageLoaded ==
    \E d \in downloads, ctx \in BOOLEAN, outcome \in CanvasOutcomes,
       size \in PosterSizes :
      \E ch \in CanvasHeights(size[1], size[2]) :
        /\ d.pc = "symbolImage"
        /\ ~ctx => outcome = "ok"     \* without a context no canvas call is made
        /\ downloads' = downloads \ {d}
        /\ Composite(d, ctx, outcome)
        /\ Measure(size, ch, ctx, outcome)
        /\ UNCHANGED resetGen
        /\ UNCHANGED <<form, results, isLoading, gens, genCount, dlCount>>
        /\ last' = Did(IF ~ctx THEN "noContext"
                       ELSE IF outcome = "ok" THEN "saved" ELSE "threw")

(* --------------------------- specification ---------------------------- *)
Next ==
    \/ ImageChange
    \/ SetName
    \/ SetSymbol
    \/ SetDistrict
    \/ GenerateClick
    \/ FileEncoded
    \/ FileEncodeRejected
    \/ GenerationSettled
    \/ SelectPoster
    \/ Reset
    \/ DownloadClick
    \/ PosterImageLoaded
    \/ PosterImageError
    \/ SymbolImageError
    \/ SymbolImageLoaded

Spec == Init /\ [][Next]_vars

\* the handlers as the interface reaches them, and handleGenerateClick also
\* invoked with a required field missing
NextHandler == Next \/ GenerateInvokedIncomplete

SpecHandler == Init /\ [][NextHandler]_vars

(* ------------------------------ claims ------------------------------- *)
PostersOk(l) == l.posters = "array" /\ l.n > 0
IconOk(l) == l.icon = "image"
\* exactly one of the two calls returned something; the other rejected or
\* returned nothing
PartialFailure(l) ==
    /\ l.op = "settled"
    /\ (PostersOk(l) /\ ~IconOk(l)) \/ (~PostersOk(l) /\ IconOk(l))
NothingStored ==
    /\ generatedPosters = NullPosters
    /\ selectedPoster = NullPoster
    /\ symbolImageUrl = NullIcon

\* C1: when exactly one of the two generation calls fails or returns
\* nothing, the finished generation leaves error set and keeps no partial
\* result: no posters, no selection and no icon are stored.
C1_PartialFailureDiscarded ==
    PartialFailure(last) => error # NULL /\ NothingStored

\* C1: the cases of a partial failure in which the code does discard all:
\* the poster call rejects or returns nothing, or the icon call rejects.
C1_DiscardedUnlessIconEmpty ==
    (PartialFailure(last) /\ ~(PostersOk(last) /\ last.icon = "null"))
        => error # NULL /\ NothingStored

\* a generation ended with posters returned and an empty icon
C1_IconEmptyReached ==
    PartialFailure(last) /\ PostersOk(last) /\ last.icon = "null"

DownloadExits == {"saved", "posterError", "iconError", "noContext", "threw"}

\* C2: every exit path of a download (saved, poster load error, icon load
\* error, no rendering context, a throwing draw or serialization call)
\* leaves isDownloading false.
C2_FlagClearedOnEveryExit ==
    last.op \in DownloadExits => ~isDownloading

\* C2: the exit paths on which the code does clear the flag.
C2_FlagClearedUnlessThrown ==
    last.op \in DownloadExits \ {"threw"} => ~isDownloading

\* C3 as stated: while a download is in flight no step (thumbnail, new
\* generation, reset, upload) changes the posters, the selection or the icon.
C3_ResultsFrozenWhileDownloading ==
    [][(isDownloading /\ downloads # {}) => results' = results]_vars

\* C3 as amended: the callbacks of a download in flight never change the
\* posters, the selection or the icon, and the file a download saves is
\* composed of the poster and icon handleDownload captured when it started,
\* whatever the user selected, generated, reset or uploaded meanwhile.
C3_DownloadUsesItsSnapshot ==
    [][\A d \in downloads :
          d \notin downloads' =>
            /\ results' = results
            /\ savedFile' # NoFile =>
                 savedFile' = [poster |-> d.poster, icon |-> d.icon]]_vars

\* a download saved a poster that is no longer the selected one
C3_SavedAfterSelectionChanged ==
    /\ last.op = "saved"
    /\ selectedPoster # NullPoster
    /\ savedFile.poster # selectedPoster

\* C4: a generation that succeeds with N >= 1 posters stores the N and
\* selects exactly one, the first; a thumbnail click changes selectedPoster
\* only, to a member of generatedPosters, and leaves the stored sequence as
\* it was.
C4_FirstSelectedThenSelectionOnly ==
    [][/\ (PostersOk(last') /\ IconOk(last') /\ last'.op = "settled") =>
            /\ ~(generatedPosters').null
            /\ Len((generatedPosters').items) = last'.n
            /\ selectedPoster' = (generatedPosters').items[1]
            /\ Cardinality({i \in 1..last'.n :
                   (generatedPosters').items[i] = selectedPoster'}) = 1
       /\ last'.op = "select" =>
            /\ generatedPosters' = generatedPosters
            /\ \E i \in 1..Len(generatedPosters.items) :
                   selectedPoster' = generatedPosters.items[i]
            /\ UNCHANGED <<form, symbolImageUrl, isLoading, isDownloading,
                           error, flight>>]_vars

\* the second of two posters was selected after the generation
C4_SecondSelected ==
    /\ last.op = "select"
    /\ Len(generatedPosters.items) = 2
    /\ selectedPoster = generatedPosters.items[2]

\* C5: at most one download is in flight at any time.
C5_AtMostOneDownload == Cardinality(downloads) <= 1

\* a download of an earlier generation is pending while the result view of
\* a new generation is rendered
C5_PendingUnderNewResultView ==
    /\ ShowResult
    /\ \E d \in downloads : d.poster.gen # selectedPoster.gen

\* C6: exactly one of the spinner, the error message, the result view and
\* the placeholder is rendered in every state.
C6_ExactlyOneView ==
    LET shown == <<ShowSpinner, ShowError, ShowResult, ShowPlaceholder>>
    IN  Cardinality({i \in 1..4 : shown[i]}) = 1

\* the error message is rendered while posters are stored
C6_ErrorOverStoredPosters == ShowError /\ ~generatedPosters.null

\* C7: reset clears posters, selection and icon together, and nothing that
\* a request issued before the reset produced is stored or selected again.
C7_ResetDiscardsForGood ==
    /\ last.op = "reset" => NothingStored
    /\ \A i \in 1..Len(generatedPosters.items) :
           generatedPosters.items[i].gen > resetGen
    /\ selectedPoster # NullPoster => selectedPoster.gen > resetGen
    /\ symbolImageUrl # NullIcon => symbolImageUrl.gen > resetGen

\* a download pending at reset time saved its file after the reset
C7_DownloadFinishedAfterReset ==
    /\ last.op = "saved"
    /\ savedFile.poster.gen <= resetGen
    /\ NothingStored

\* C8: a generation whose poster call returns zero posters ends with error
\* set and nothing stored, the icon included; posters are never stored
\* without a selection.
C8_EmptyResultIsFailure ==
    /\ (last.op = "settled" /\ last.posters \in {"array", "null"} /\ last.n = 0)
           => error # NULL /\ NothingStored
    /\ ~generatedPosters.null =>
           Len(generatedPosters.items) > 0 /\ selectedPoster # NullPoster

\* the poster call returned an empty array and the icon call an image
C8_EmptyArrayWithIcon ==
    /\ last.op = "settled"
    /\ last.posters = "array"
    /\ last.n = 0
    /\ last.icon = "image"

\* C9: a poster load error ends the download with the poster message, an
\* icon load error with the different icon message; neither draws on a
\* canvas nor saves a file.
C9_LoadErrorsDistinctNoOutput ==
    /\ MsgPosterLoad # MsgIconLoad
    /\ last.op = "posterError" =>
           error = MsgPosterLoad /\ canvasOps = <<>> /\ savedFile = NoFile
               /\ downloads = {} /\ ~isDownloading
    /\ last.op = "iconError" =>
           error = MsgIconLoad /\ canvasOps = <<>> /\ savedFile = NoFile
               /\ downloads = {} /\ ~isDownloading

\* the second download of a behaviour ended with the poster message
C9_PosterErrorReached == last.op = "posterError" /\ dlCount = 2

\* C10: a failed download (poster load, icon load, no context) and a
\* generate call rejected for a missing field set error and leave the
\* posters, the selection and the icon as they were.
C10_ErrorsKeepResults ==
    [][last'.op \in {"posterError", "iconError", "noContext", "generateRejected"}
          => error' # NULL /\ results' = results]_vars

\* a generate call was rejected while posters are stored
C10_RejectedWithResults ==
    /\ last.op = "generateRejected"
    /\ error = MsgFillAllFields
    /\ ~generatedPosters.null
    /\ selectedPoster # NullPoster
    /\ symbolImageUrl # NullIcon

\* C11: handleGenerateClick invoked with a required field missing sets the
\* fill-all-fields message at once, issues no generation request (neither
\* remote call is made) and does not raise isLoading.
C11_MissingFieldRejected ==
    [][last'.op = "generateRejected" =>
          /\ error' = MsgFillAllFields
          /\ gens' = gens
          /\ genCount' = genCount
          /\ isLoading' = isLoading]_vars

\* the handler was invoked without a photo before any request was issued
C11_RejectedWithoutPhoto ==
    /\ last.op = "generateRejected"
    /\ imageFile = NULL
    /\ genCount = 0
    /\ ~isLoading

\* a length given in hundredths of a pixel
Px(hundredths) == hundredths * (Unit \div 100)
\* v is within tol of the length given in hundredths of a pixel
Near(v, hundredths, tol) ==
    v - Px(hundredths) <= tol /\ Px(hundredths) - v <= tol
\* the layout of a 1000 x 1000 poster was computed
LaidOutSquare ==
    /\ geometry.posterWidth = 1000
    /\ geometry.posterHeight = 1000
    /\ geometry.symbolX # NoValue

\* C12 as stated: a 1000 x 1000 poster gives a 1500 x 1500 canvas, name
\* baseline 1230, caption baseline about 1283.57 and the icon at about
\* (583, 1283.6 + 42.9), each to within a pixel.
C12_LayoutOfSquarePosterAsStated ==
    LaidOutSquare =>
        /\ geometry.canvasWidth = 1500
        /\ geometry.canvasHeight = 1500
        /\ Near(geometry.nameY, 123000, Unit)
        /\ Near(geometry.districtY, 128357, Unit)
        /\ Near(geometry.symbolX, 58300, Unit)
        /\ Near(geometry.symbolY, 132650, Unit)

\* C12 as amended: the same, with the icon at about (666.67, 1326.43), which
\* is what x = canvasWidth/2 - iconSize/2 with iconSize = canvasWidth/9
\* gives; each value to within a hundredth of a pixel.
C12_LayoutOfSquarePoster ==
    LaidOutSquare =>
        /\ geometry.canvasWidth = 1500
        /\ geometry.canvasHeight = 1500
        /\ Near(geometry.nameY, 123000, Unit \div 100)
        /\ Near(geometry.districtY, 128357, Unit \div 100)
        /\ Near(geometry.symbolX, 66667, Unit \div 100)
        /\ Near(geometry.symbolY, 132643, Unit \div 100)

\* a 1000 x 1000 poster was composited and saved
C12_SquarePosterSaved == last.op = "saved" /\ LaidOutSquare

\* the canvas of a poster with positive natural dimensions was sized
SizedPositive == geometry.posterWidth > 0 /\ geometry.posterHeight > 0

\* C13 as stated: for positive (W, H) the canvas is 1500 wide and its
\* height keeps the aspect ratio exactly: canvasHeight * W = H * 1500.
C13_AspectExact ==
    SizedPositive =>
        /\ geometry.canvasWidth = 1500
        /\ geometry.canvasHeight * geometry.posterWidth
               = geometry.posterHeight * 1500

\* C13 as amended: for positive (W, H) the canvas is 1500 wide and its
\* height, a whole number of pixels, is within one pixel below H * 1500 / W:
\* H * 1500 - W <= canvasHeight * W <= H * 1500.
C13_AspectWithinOnePixel ==
    SizedPositive =>
        /\ geometry.canvasWidth = 1500
        /\ geometry.canvasHeight * geometry.posterWidth
               <= geometry.posterHeight * 1500
        /\ geometry.canvasHeight * geometry.posterWidth
               >= geometry.posterHeight * 1500 - geometry.posterWidth

\* a 7 x 5 poster was saved on a canvas 1071 px high (1500 * 5 / 7 = 1071.43)
C13_TruncatedHeightSaved ==
    /\ last.op = "saved"
    /\ geometry.posterWidth = 7
    /\ geometry.posterHeight = 5
    /\ geometry.canvasHeight = 1071

\* C14: a download starts its icon load only in the step in which its
\* poster load succeeds; the layout, the canvas calls and the saved file
\* come only from a download whose icon load, started that way, succeeds;
\* a download whose poster load fails is over, its icon load never started.
C14_IconAfterPosterDrawAfterBoth ==
    [][/\ \A d2 \in downloads' :
            d2.pc = "symbolImage" =>
              \/ d2 \in downloads
              \/ /\ [d2 EXCEPT !.pc = "posterImage"] \in downloads
                 /\ last'.op = "posterLoaded"
       /\ (canvasOps' # <<>> \/ geometry' # NoGeometry \/ savedFile' # NoFile)
            => \E d \in downloads : d.pc = "symbolImage" /\ d \notin downloads'
       /\ last'.op = "posterError" =>
            \E d \in downloads :
               /\ d.pc = "posterImage"
               /\ \A d2 \in downloads' : d2.id # d.id]_vars

\* the poster of a download has loaded and its icon load is pending
C14_IconLoadPending ==
    /\ last.op = "posterLoaded"
    /\ \E d \in downloads : d.pc = "symbolImage"

\* the shadow paint state in force when the i-th operation of ops runs
ShadowInForce(ops, i) ==
    \E j \in 1..(i - 1) :
       /\ ops[j] = "shadowOn"
       /\ \A k \in (j + 1)..(i - 1) : ops[k] # "shadowOff"

\* C15: a successful download performs draw poster, enable shadow, draw
\* name, draw caption, disable shadow, draw icon, serialize, save, in this
\* order; whenever a text is drawn the shadow is enabled and whenever the
\* icon is drawn it is disabled (also in a composite that stops early).
C15_FixedOperationOrder ==
    /\ last.op = "saved" =>
         canvasOps = << "drawPoster", "shadowOn", "fillName", "fillDistrict",
                        "shadowOff", "drawIcon", "toDataURL", "click" >>
    /\ \A i \in 1..Len(canvasOps) :
         /\ canvasOps[i] \in {"fillName", "fillDistrict"}
               => ShadowInForce(canvasOps, i)
         /\ canvasOps[i] = "drawIcon" => ~ShadowInForce(canvasOps, i)

\* a download has drawn everything and saved the file
C15_CompositeSaved ==
    /\ last.op = "saved"
    /\ savedFile # NoFile
    /\ Len(canvasOps) = 8

\* C16: when no 2D context is obtained after both images have loaded, the
\* download ends with a message of its own, different from both image-load
\* messages, with no canvas call made, no file saved and isDownloading
\* cleared.
C16_NoContextReported ==
    last.op = "noContext" =>
       /\ error = MsgNoContext
       /\ error \notin {MsgPosterLoad, MsgIconLoad}
       /\ canvasOps = <<>>
       /\ savedFile = NoFile
       /\ ~isDownloading

\* a download found no context after its poster and icon had loaded
C16_NoContextReached ==
    /\ last.op = "noContext"
    /\ geometry.canvasWidth = TargetWidth
    /\ geometry.nameFontSize = NoValue

\* C17: a poster that reports width 0 makes the download stop with a
\* reported failure before any layout value is computed and before any
\* canvas call.
C17_ZeroWidthShortCircuits ==
    geometry.posterWidth = 0 =>
       /\ error # NULL
       /\ canvasOps = <<>>
       /\ savedFile = NoFile
       /\ geometry.canvasHeight = NoValue
       /\ geometry.nameFontSize = NoValue
       /\ geometry.symbolX = NoValue

\* generatedPosters and selectedPoster are both absent or both present
PostersPresent == ~generatedPosters.null
SelectionPresent == selectedPoster # NullPoster

\* C18: in every reachable state generatedPosters is present exactly when
\* selectedPoster is, a present selectedPoster is one of generatedPosters,
\* and a step that sets or clears one of them sets or clears the other.
C18_PostersAndSelectionTogether ==
    /\ [](/\ PostersPresent <=> SelectionPresent
          /\ SelectionPresent =>
               \E i \in 1..Len(generatedPosters.items) :
                  generatedPosters.items[i] = selectedPoster)
    /\ [][(PostersPresent' # PostersPresent)
             <=> (SelectionPresent' # SelectionPresent)]_vars

\* a second generation has replaced the posters and the selection of the first
C18_SecondResultStored ==
    /\ last.op = "settled"
    /\ PostersPresent
    /\ SelectionPresent
    /\ selectedPoster.gen = 2

\* C19: whenever a generation request has completed with posters and icon
\* stored and isLoading cleared, error is absent and the result view is
\* the one shown.
C19_SuccessShowsResult ==
    (/\ last.op = "settled"
     /\ PostersPresent
     /\ symbolImageUrl # NullIcon
     /\ ~isLoading)
       => (error = NULL /\ ShowResult)

\* C20: whenever generated posters are present they were produced by a
\* generation request issued for the photo currently held in imageFile.
C20_PostersOfCurrentPhoto ==
    PostersPresent =>
       \A i \in 1..Len(generatedPosters.items) :
          generatedPosters.items[i].photo = imageFile

====
